---- MODULE Spec2Model ----
(***************************************************************************)
(* Approval checker assignment VRF criteria                                *)
(* (validation/src/approval/assignments/criteria.rs).                      *)
(*                                                                         *)
(* The criteria, the create / sign / to_signed / verify pipeline and the   *)
(* Position sortition are modelled operation by operation.  schnorrkel and *)
(* merlin are modelled symbolically: a transcript is the sequence of the   *)
(* items appended to it, a Ristretto point is named by an integer, a VRF   *)
(* output is the point named by (secret key, input), and a DLEQ proof      *)
(* verifies exactly for the key, transcript and in/out pair it was made    *)
(* for.  Machine words are scaled down (TLC integers are 32 bit): MaxU32   *)
(* stands for u32::MAX and MaxU64 for u64::MAX.                            *)
(***************************************************************************)
EXTENDS Integers, Sequences, FiniteSets, TLC

VARIABLES created, signed, wire, verified, position, panicked

vars == <<created, signed, wire, verified, position, panicked>>

(***************************************************************************)
(* Bounds                                                                  *)
(***************************************************************************)
\* u32::MAX, scaled down
MaxU32 == 31
\* u64::MAX, scaled down with it: wider than a u32
MaxU64 == 63
\* largest RelayVRFModulo::sample tried
MaxSample == 2
\* most availability cores in an enumerated paraids_by_core()
MaxCores == 4

U32 == 0..MaxU32
U64 == 0..MaxU64

(***************************************************************************)
(* Option, Result and panics                                               *)
(***************************************************************************)
None == [tag |-> "None"]
Some(x) == [tag |-> "Some", val |-> x]
Ok(x) == [tag |-> "Ok", val |-> x]
BadAssignment(msg) == [tag |-> "Err", kind |-> "BadAssignment", msg |-> msg]
BadStory(msg) == [tag |-> "Err", kind |-> "BadStory", msg |-> msg]
Panic(msg) == [tag |-> "Panic", msg |-> msg]
IsOk(r) == r.tag = "Ok"
IsErr(r) == r.tag = "Err"
IsPanic(r) == r.tag = "Panic"

saturating_mul(a, b) == IF a * b > MaxU32 THEN MaxU32 ELSE a * b
saturating_add(a, b) == IF a + b > MaxU32 THEN MaxU32 ELSE a + b
saturating_sub(a, b) == IF a - b < 0 THEN 0 ELSE a - b

(***************************************************************************)
(* Keys and validator identities                                           *)
(***************************************************************************)
\* a keypair is named by its secret scalar
Keypairs == {1, 2}
PublicOf(keypair) == [pk |-> keypair]
\* PublicKey::to_bytes: the compressed point; an odd value is no encoding
PublicKeyToBytes(key) == 2 * key.pk
MalformedKeyBytes == 1
ValidatorIds == {PublicKeyToBytes(PublicOf(k)) : k \in Keypairs} \cup {MalformedKeyBytes}
PublicKeyFromBytes(bytes) ==
    IF bytes % 2 = 0 /\ (bytes \div 2) \in Keypairs
    THEN Ok([pk |-> bytes \div 2])
    ELSE [tag |-> "Err", kind |-> "SignatureError", msg |-> "point decompression"]

\* pub(super) fn validator_id_from_key: unimplemented!()
validator_id_from_key(key) == Panic("not implemented")

(***************************************************************************)
(* merlin::Transcript                                                      *)
(***************************************************************************)
TranscriptNew(label) == <<[label |-> label, kind |-> "dom", val |-> 0]>>
append_u64(t, label, x) == Append(t, [label |-> label, kind |-> "u64", val |-> x])
append_message(t, label, m) == Append(t, [label |-> label, kind |-> "msg", val |-> m])

(***************************************************************************)
(* ApprovalContext.  A relay chain block hash is named by the core data    *)
(* the block commits to.                                                   *)
(***************************************************************************)
num_cores(context) == context.hash.num_cores
paraids_by_core(context) == context.hash.paraids
core_by_paraid(context, paraid) ==
    LET paraids == paraids_by_core(context)
        cores == {i \in 1..Len(paraids) : paraids[i] = Some(paraid)}
    IN  IF cores = {} THEN None ELSE Some(CHOOSE i \in cores : \A j \in cores : i <= j)

\* transcript() with the slot left out
transcript_NoSlot(context) ==
    LET t0 == TranscriptNew("Approval Assignment Signature")
        t2 == append_u64(t0, "rad epoch", context.epoch)
        t3 == append_message(t2, "rad block", context.hash)
    IN  append_message(t3, "rad authority", context.authority)

transcript(context) ==
    LET t0 == TranscriptNew("Approval Assignment Signature")
        t1 == append_u64(t0, "rad slot", context.slot)
        t2 == append_u64(t1, "rad epoch", context.epoch)
        t3 == append_message(t2, "rad block", context.hash)
    IN  append_message(t3, "rad authority", context.authority)

(***************************************************************************)
(* Criteria                                                                *)
(***************************************************************************)
RelayVRFModulo(sample) == [kind |-> "RelayVRFModulo", sample |-> sample]
RelayVRFDelay(paraid) == [kind |-> "RelayVRFDelay", paraid |-> paraid]
RelayEquivocation(paraid) == [kind |-> "RelayEquivocation", paraid |-> paraid]

\* vrf_input without the sample check
RelayVRFModulo_vrf_input_AnySample(criteria, story) ==
    LET t0 == TranscriptNew("Approval Assignment VRF")
        t1 == append_message(t0, "RelayVRFModulo", story.anv_rc_vrf_source)
    IN  Ok(append_u64(t1, "RelayVRFModulo", criteria.sample))

RelayVRFModulo_vrf_input(criteria, story) ==
    IF criteria.sample > 0
    THEN BadAssignment("RelayVRFModulo does not yet support additional samples")
    ELSE LET t0 == TranscriptNew("Approval Assignment VRF")
             t1 == append_message(t0, "RelayVRFModulo", story.anv_rc_vrf_source)
         IN  Ok(append_u64(t1, "RelayVRFModulo", criteria.sample))

RelayVRFDelay_vrf_input(criteria, story) ==
    LET t0 == TranscriptNew("Approval Assignment VRF")
        t1 == append_message(t0, "RelayVRFDelay", story.anv_rc_vrf_source)
    IN  Ok(append_u64(t1, "ParaId", criteria.paraid))

\* vrf_input with a default hash for a paraid that is no candidate equivocation
RelayEquivocation_vrf_input_Unchecked(criteria, story) ==
    LET h == IF criteria.paraid \in DOMAIN story.candidate_equivocations
             THEN story.candidate_equivocations[criteria.paraid]
             ELSE 0
        t0 == TranscriptNew("Approval Assignment VRF")
        t1 == append_u64(t0, "ParaId", criteria.paraid)
    IN  Ok(append_message(t1, "Candidate Equivocation", h))

RelayEquivocation_vrf_input(criteria, story) ==
    IF criteria.paraid \notin DOMAIN story.candidate_equivocations
    THEN BadStory("Not a candidate equivocation")
    ELSE LET h == story.candidate_equivocations[criteria.paraid]
             t0 == TranscriptNew("Approval Assignment VRF")
             t1 == append_u64(t0, "ParaId", criteria.paraid)
         IN  Ok(append_message(t1, "Candidate Equivocation", h))

vrf_input(criteria, story) ==
    CASE criteria.kind = "RelayVRFModulo" -> RelayVRFModulo_vrf_input(criteria, story)
      [] criteria.kind = "RelayVRFDelay" -> RelayVRFDelay_vrf_input(criteria, story)
      [] criteria.kind = "RelayEquivocation" -> RelayEquivocation_vrf_input(criteria, story)

extra(criteria, context) == transcript(context)

IsDelayCriteria(criteria) == criteria.kind \in {"RelayVRFDelay", "RelayEquivocation"}
zeroth_delay_tranche_width(criteria) ==
    IF criteria.kind = "RelayEquivocation" THEN 7 ELSE 0
delay_tranches_per_core(criteria) == 2

(***************************************************************************)
(* schnorrkel::vrf, symbolically                                           *)
(***************************************************************************)
KeyRadix == Cardinality(Keypairs) + 1
U64Mod == MaxU64 + 1

\* the integer naming the point a VRF input transcript hashes to
TranscriptCode(t) ==
    LET kind == CASE t[2].label = "RelayVRFModulo" -> 1
                  [] t[2].label = "RelayVRFDelay" -> 2
                  [] OTHER -> 3
    IN  kind + 4 * (t[2].val + U64Mod * t[3].val)

\* PublicKey::vrf_hash: the input point, bound to the public key
vrf_hash(key, t) == [pk |-> key.pk, t |-> t]

\* the point  secret * input
VrfPoint(secret, input) ==
    secret + KeyRadix * (input.pk + KeyRadix * TranscriptCode(input.t))

\* CompressedRistretto: an odd value decompresses to no point
Compress(point) == 2 * point
Decompress(bytes) ==
    IF bytes % 2 = 0
    THEN Ok(bytes \div 2)
    ELSE [tag |-> "Err", kind |-> "SignatureError", msg |-> "point decompression"]

\* Keypair::vrf_create_hash
vrf_create_hash(keypair, t) ==
    LET input == vrf_hash(PublicOf(keypair), t)
        point == VrfPoint(keypair, input)
    IN  [input |-> input, output |-> [compressed |-> Compress(point), point |-> point]]

\* VRFOutput::from_bytes(..).attach_input_hash(public, t)
attach_input_hash(vrf_preout, key, t) ==
    LET d == Decompress(vrf_preout)
    IN  IF IsOk(d)
        THEN Ok([input |-> vrf_hash(key, t),
                 output |-> [compressed |-> vrf_preout, point |-> d.val]])
        ELSE d

\* VRFInOut::to_output().to_bytes()
to_output_bytes(vrf_inout) == vrf_inout.output.compressed

\* VRFInOut::make_bytes::<[u8; 8]>(label), read as a little endian u64: a
\* fixed function of the in/out pair and the label that takes every u64
\* value as the entropy of the input transcript varies
make_bytes(vrf_inout, label) ==
    LET salt == IF label = "parachain" THEN 0 ELSE 5
        t == vrf_inout.input.t
    IN  (t[2].val + t[3].val + (vrf_inout.output.point % KeyRadix) + salt) % U64Mod

\* Keypair::dleq_proove(t, inout, KUSAMA_VRF).0
dleq_proove(keypair, t, vrf_inout) == [sk |-> keypair, t |-> t, io |-> vrf_inout]
VRFProofToBytes(proof) == [canonical |-> TRUE, proof |-> proof]
VRFProofFromBytes(bytes) ==
    IF bytes.canonical
    THEN Ok(bytes.proof)
    ELSE [tag |-> "Err", kind |-> "SignatureError", msg |-> "scalar format"]

\* PublicKey::dleq_verify(t, inout, proof, KUSAMA_VRF)
dleq_verify(key, t, vrf_inout, proof) ==
    IF /\ proof.sk = key.pk
       /\ proof.t = t
       /\ proof.io = vrf_inout
       /\ vrf_inout.output.point = VrfPoint(proof.sk, vrf_inout.input)
    THEN Ok(TRUE)
    ELSE [tag |-> "Err", kind |-> "SignatureError", msg |-> "equation false"]

(***************************************************************************)
(* Assignment                                                              *)
(***************************************************************************)
Unit == [tag |-> "unit"]

\* Assignment::checker / AssignmentSigned::checker
checker(a) == a.vrf_signature.checker

to_signed(a, context) ==
    [context |-> context,
     criteria |-> a.criteria,
     vrf_preout |-> to_output_bytes(a.vrf_inout),
     vrf_signature |-> a.vrf_signature]

create(criteria, story, keypair) ==
    LET input == vrf_input(criteria, story)
    IN  IF IsErr(input)
        THEN input
        ELSE Ok([criteria |-> criteria,
                 vrf_signature |-> Unit,
                 vrf_inout |-> vrf_create_hash(keypair, input.val)])

sign(a, context, keypair) ==
    LET t == extra(a.criteria, context)
        vrf_proof == VRFProofToBytes(dleq_proove(keypair, t, a.vrf_inout))
        id == validator_id_from_key(PublicOf(keypair))
    IN  IF IsPanic(id)
        THEN id
        ELSE Ok([criteria |-> a.criteria,
                 vrf_signature |-> [checker |-> id.val, vrf_proof |-> vrf_proof],
                 vrf_inout |-> a.vrf_inout])

(***************************************************************************)
(* AssignmentSigned                                                        *)
(***************************************************************************)
\* checker_pk reading the context's authority instead of the signature's checker
checker_pk_FromAuthority(s) ==
    LET key == PublicKeyFromBytes(s.context.authority)
    IN  IF IsOk(key) THEN key ELSE BadAssignment("Bad VRF signature (bad publickey)")

checker_pk(s) ==
    LET key == PublicKeyFromBytes(s.vrf_signature.checker)
    IN  IF IsOk(key) THEN key ELSE BadAssignment("Bad VRF signature (bad publickey)")

\* verify decoding the proof before it builds the VRF input
verify_ProofFirst(s, story) ==
    LET key == PublicKeyFromBytes(s.vrf_signature.checker)
        input == vrf_input(s.criteria, story)
        vrf_inout == attach_input_hash(s.vrf_preout, key.val, input.val)
        vrf_proof == VRFProofFromBytes(s.vrf_signature.vrf_proof)
        t == extra(s.criteria, s.context)
    IN  IF IsErr(key) THEN BadAssignment("Bad VRF signature (bad publickey)")
        ELSE IF IsErr(vrf_proof) THEN BadAssignment("Bad VRF signature (bad proof)")
        ELSE IF IsErr(input) THEN input
        ELSE IF IsErr(vrf_inout) THEN BadAssignment("Bad VRF signature (bad pre-output)")
        ELSE IF IsErr(dleq_verify(key.val, t, vrf_inout.val, vrf_proof.val))
        THEN BadAssignment("Bad VRF signature (invalid)")
        ELSE Ok(<<s.context,
                  [criteria |-> s.criteria,
                   vrf_signature |-> s.vrf_signature,
                   vrf_inout |-> vrf_inout.val]>>)

verify(s, story) ==
    LET key == checker_pk(s)
        input == vrf_input(s.criteria, story)
        vrf_inout == attach_input_hash(s.vrf_preout, key.val, input.val)
        vrf_proof == VRFProofFromBytes(s.vrf_signature.vrf_proof)
        t == extra(s.criteria, s.context)
    IN  IF IsErr(key) THEN key
        ELSE IF IsErr(input) THEN input
        ELSE IF IsErr(vrf_inout) THEN BadAssignment("Bad VRF signature (bad pre-output)")
        ELSE IF IsErr(vrf_proof) THEN BadAssignment("Bad VRF signature (bad proof)")
        ELSE IF IsErr(dleq_verify(key.val, t, vrf_inout.val, vrf_proof.val))
        THEN BadAssignment("Bad VRF signature (invalid)")
        ELSE Ok(<<s.context,
                  [criteria |-> s.criteria,
                   vrf_signature |-> s.vrf_signature,
                   vrf_inout |-> vrf_inout.val]>>)

(***************************************************************************)
(* Position                                                                *)
(***************************************************************************)
\* paraid reducing modulo the number of occupied cores
RelayVRFModulo_paraid_AssignedOnly(a, context) ==
    LET paraids == paraids_by_core(context)
        n == Cardinality({i \in 1..Len(paraids) : paraids[i] # None})
        parachain == make_bytes(a.vrf_inout, "parachain")
    IN  IF n = 0
        THEN Panic("attempt to calculate the remainder with a divisor of zero")
        ELSE Ok(paraids[(parachain % n) + 1])

RelayVRFModulo_paraid(a, context) ==
    LET paraids == paraids_by_core(context)
        parachain == make_bytes(a.vrf_inout, "parachain")
    IN  IF Len(paraids) = 0
        THEN Panic("attempt to calculate the remainder with a divisor of zero")
        ELSE Ok(paraids[(parachain % Len(paraids)) + 1])

\* paraid without the core_by_paraid check
DelayCriteria_paraid_Unchecked(a, context) == Ok(Some(a.criteria.paraid))

DelayCriteria_paraid(a, context) ==
    IF core_by_paraid(context, a.criteria.paraid) = None
    THEN Ok(None)
    ELSE Ok(Some(a.criteria.paraid))

paraid(a, context) ==
    IF IsDelayCriteria(a.criteria)
    THEN DelayCriteria_paraid(a, context)
    ELSE RelayVRFModulo_paraid(a, context)

\* the modulus in wrapping arithmetic
delay_tranche_modulus_Wrapping(criteria, context) ==
    (num_cores(context) * delay_tranches_per_core(criteria)
     + zeroth_delay_tranche_width(criteria)) % (MaxU32 + 1)

delay_tranche_modulus(criteria, context) ==
    saturating_add(saturating_mul(num_cores(context), delay_tranches_per_core(criteria)),
                   zeroth_delay_tranche_width(criteria))

\* delay_tranche without the subtraction of the zeroth tranche's width
DelayCriteria_delay_tranche_NoSub(a, context) ==
    LET modulus == delay_tranche_modulus(a.criteria, context)
        tranche == make_bytes(a.vrf_inout, "tranche")
    IN  IF modulus = 0
        THEN Panic("attempt to calculate the remainder with a divisor of zero")
        ELSE Ok((tranche % modulus) % (MaxU32 + 1))

DelayCriteria_delay_tranche(a, context) ==
    LET modulus == delay_tranche_modulus(a.criteria, context)
        tranche == make_bytes(a.vrf_inout, "tranche")
    IN  IF modulus = 0
        THEN Panic("attempt to calculate the remainder with a divisor of zero")
        ELSE Ok(saturating_sub(tranche % modulus, zeroth_delay_tranche_width(a.criteria))
                % (MaxU32 + 1))

delay_tranche(a, context) ==
    IF IsDelayCriteria(a.criteria)
    THEN DelayCriteria_delay_tranche(a, context)
    ELSE Ok(0)

(***************************************************************************)
(* The values the operations are applied to                                *)
(***************************************************************************)
ParaIds == {10, 11, 12, 13}
Slots == {1, 2}

\* paraids_by_core() of a block: no parachain on two cores
CoreSeqs ==
    LET Entries == {None} \cup {Some(p) : p \in ParaIds}
        All == UNION {[1..n -> Entries] : n \in 0..MaxCores}
    IN  {q \in All : \A i, j \in 1..Len(q) : (i # j /\ q[i] # None) => q[i] # q[j]}

Block(n, paraids) == [num_cores |-> n, paraids |-> paraids]
Context(slot, hash, authority) ==
    [slot |-> slot, epoch |-> 1, hash |-> hash, authority |-> authority]

HonestIds == {PublicKeyToBytes(PublicOf(k)) : k \in Keypairs}

\* blocks and contexts of the signing and verifying runs
LifeBlocks == {Block(2, <<Some(10), None>>), Block(1, <<Some(11)>>)}
SignContexts == {Context(sl, Block(2, <<Some(10), None>>), id) : sl \in Slots, id \in HonestIds}
LifePositionContexts == {Context(1, b, 2) : b \in LifeBlocks}

\* contexts of the sortition runs: every core sequence, every core count
ParaidContexts == {Context(1, Block(Len(q), q), 2) : q \in CoreSeqs}
TrancheContexts == {Context(1, Block(n, <<>>), 2) : n \in U32}

RelayVRFStory(source) == [anv_rc_vrf_source |-> source]
RelayEquivocationStory(equivocations) == [candidate_equivocations |-> equivocations]
EmptyMap == [x \in {} |-> 0]

LifeCriteria ==
    {RelayVRFModulo(n) : n \in 0..MaxSample}
    \cup {RelayVRFDelay(10), RelayEquivocation(10)}
LifeStories(criteria) ==
    IF criteria.kind = "RelayEquivocation"
    THEN {RelayEquivocationStory(EmptyMap)}
         \cup {RelayEquivocationStory(10 :> h) : h \in {0, 1}}
    ELSE {RelayVRFStory(src) : src \in {0, 1}}

SortitionCriteria == {RelayVRFModulo(0), RelayVRFDelay(10), RelayEquivocation(10)}
SortitionStories(criteria) ==
    IF criteria.kind = "RelayEquivocation"
    THEN {RelayEquivocationStory(10 :> h) : h \in U64}
    ELSE {RelayVRFStory(src) : src \in U64}

\* what an honest peer whose validator_id_from_key is PublicKey::to_bytes
\* announces: the in/out pairs and proofs of every created assignment
HonestInOuts ==
    {create(c, st, k).val.vrf_inout :
        <<c, st, k>> \in {x \in UNION {{<<c, st, k>> : st \in LifeStories(c), k \in Keypairs} :
                                        c \in LifeCriteria} :
                           IsOk(create(x[1], x[2], x[3]))}}
PreoutBytes == {to_output_bytes(io) : io \in HonestInOuts} \cup {3}
HonestProofs ==
    {dleq_proove(io.output.point % KeyRadix, transcript(ctx), io) :
        io \in HonestInOuts, ctx \in SignContexts}
ProofBytes ==
    {VRFProofToBytes(p) : p \in HonestProofs}
    \cup {[canonical |-> FALSE, proof |-> p] : p \in {CHOOSE q \in HonestProofs : TRUE}}

\* every wire form gossip can deliver
WireForms ==
    {[context |-> ctx, criteria |-> c, vrf_preout |-> pre,
      vrf_signature |-> [checker |-> id, vrf_proof |-> pf]] :
        ctx \in SignContexts, c \in LifeCriteria, pre \in PreoutBytes,
        id \in ValidatorIds, pf \in ProofBytes}

(***************************************************************************)
(* The state machine.  One run follows one assignment, created locally or  *)
(* received from gossip.  Each variable records the last call of an        *)
(* operation: its arguments and what it returned.                          *)
(***************************************************************************)
Init ==
    /\ created = None
    /\ signed = None
    /\ wire = None
    /\ verified = None
    /\ position = None
    /\ panicked = FALSE

\* Assignment::create(criteria, story, checker)
DoCreate(criteria, story, keypair) ==
    /\ ~panicked
    /\ wire = None
    /\ created' = [criteria |-> criteria, story |-> story, checker |-> keypair,
                   result |-> create(criteria, story, keypair)]
    /\ position' = None
    /\ UNCHANGED <<signed, wire, verified, panicked>>

Create ==
    \E c \in LifeCriteria : \E st \in LifeStories(c) : \E k \in Keypairs :
        DoCreate(c, st, k)

\* Assignment::sign(&self, context, checker) on the created assignment
Sign ==
    /\ ~panicked
    /\ created # None
    /\ IsOk(created.result)
    /\ \E ctx \in SignContexts : \E k \in Keypairs :
        LET r == sign(created.result.val, ctx, k)
        IN  /\ signed' = [unsigned |-> created, context |-> ctx, checker |-> k,
                           result |-> r]
            /\ panicked' = IsPanic(r)
    /\ UNCHANGED <<created, wire, verified, position>>

\* an AssignmentSigned arrives
Receive ==
    /\ ~panicked
    /\ created = None
    /\ wire = None
    /\ \E s \in WireForms : wire' = s
    /\ UNCHANGED <<created, signed, verified, position, panicked>>

\* AssignmentSigned::verify(&self, story)
Verify ==
    /\ ~panicked
    /\ wire # None
    /\ \E st \in LifeStories(wire.criteria) :
        verified' = [s |-> wire, story |-> st, result |-> verify(wire, st)]
    /\ position' = None
    /\ UNCHANGED <<created, signed, wire, panicked>>

\* the signed assignments held: returned by sign or by verify
SignedAssignments ==
    (IF signed # None /\ IsOk(signed.result) THEN {signed.result.val} ELSE {})
    \cup (IF verified # None /\ IsOk(verified.result) THEN {verified.result.val[2]} ELSE {})

\* every assignment held, signed or not
Assignments ==
    SignedAssignments
    \cup (IF created # None /\ IsOk(created.result) THEN {created.result.val} ELSE {})

\* Assignment::to_signed(&self, context)
ToSigned ==
    /\ ~panicked
    /\ \E a \in SignedAssignments : \E ctx \in SignContexts :
        wire' = to_signed(a, ctx)
    /\ UNCHANGED <<created, signed, verified, position, panicked>>

\* Position::paraid(&self, context)
DoParaid(a, ctx) ==
    /\ ~panicked
    /\ position' = [op |-> "paraid", a |-> a, context |-> ctx, result |-> paraid(a, ctx)]
    /\ panicked' = IsPanic(paraid(a, ctx))
    /\ UNCHANGED <<created, signed, wire, verified>>

\* Position::delay_tranche(&self, context)
DoDelayTranche(a, ctx) ==
    /\ ~panicked
    /\ position' = [op |-> "delay_tranche", a |-> a, context |-> ctx,
                    result |-> delay_tranche(a, ctx)]
    /\ panicked' = IsPanic(delay_tranche(a, ctx))
    /\ UNCHANGED <<created, signed, wire, verified>>

Paraid == \E a \in Assignments : \E ctx \in LifePositionContexts : DoParaid(a, ctx)
DelayTranche == \E a \in Assignments : \E ctx \in LifePositionContexts : DoDelayTranche(a, ctx)

Next == Create \/ Sign \/ Receive \/ Verify \/ ToSigned \/ Paraid \/ DelayTranche

Spec == Init /\ [][Next]_vars

\* the sortition runs: one create over every entropy value, then one Position
\* call over every core sequence or every core count
CreateSortition ==
    /\ created = None
    /\ \E c \in SortitionCriteria : \E st \in SortitionStories(c) : DoCreate(c, st, 1)
ParaidSortition ==
    /\ position = None
    /\ \E a \in Assignments : \E ctx \in ParaidContexts : DoParaid(a, ctx)
DelayTrancheSortition ==
    /\ position = None
    /\ \E a \in Assignments : \E ctx \in TrancheContexts : DoDelayTranche(a, ctx)

NextSortition == CreateSortition \/ ParaidSortition \/ DelayTrancheSortition

SpecSortition == Init /\ [][NextSortition]_vars

(***************************************************************************)
(* Properties                                                              *)
(***************************************************************************)
IsCall(op) == position # None /\ position.op = op
SignerId(keypair) == PublicKeyToBytes(PublicOf(keypair))

\* C1: create(..).sign(context, keypair).to_signed(context).verify(story)
\* succeeds, the verified assignment's checker() is the signer's identity, and
\* its Position results are those of the unsigned assignment.
C1_RoundTrip ==
    (signed # None /\ signed.checker = signed.unsigned.checker) =>
        /\ IsOk(signed.result)
        /\ LET unsigned == signed.unsigned.result.val
               v == verify(to_signed(signed.result.val, signed.context),
                           signed.unsigned.story)
           IN  /\ IsOk(v)
               /\ checker(v.val[2]) = SignerId(signed.checker)
               /\ \A ctx \in LifePositionContexts :
                    /\ paraid(v.val[2], ctx) = paraid(unsigned, ctx)
                    /\ delay_tranche(v.val[2], ctx) = delay_tranche(unsigned, ctx)

\* the contexts, proof bytes and pre-output bytes a wire form can be altered to
AlteredContexts == {Context(sl, b, id) : sl \in Slots, b \in LifeBlocks, id \in HonestIds}
WithContext(s, ctx) == [s EXCEPT !.context = ctx]
WithProof(s, pf) == [s EXCEPT !.vrf_signature.vrf_proof = pf]
WithPreout(s, pre) == [s EXCEPT !.vrf_preout = pre]

\* C2: verify never panics, and it returns an error for a valid wire form
\* with its context, its proof bytes or its pre-output bytes altered, and for
\* a story that yields another VRF input transcript.
C2_AlteredWireFormRejected ==
    verified # None =>
        /\ verified.result.tag \in {"Ok", "Err"}
        /\ IsOk(verified.result) =>
            LET s == verified.s
                st == verified.story
            IN  /\ \A ctx \in AlteredContexts \ {s.context} :
                     IsErr(verify(WithContext(s, ctx), st))
                /\ \A pf \in ProofBytes \ {s.vrf_signature.vrf_proof} :
                     IsErr(verify(WithProof(s, pf), st))
                /\ \A pre \in PreoutBytes \ {s.vrf_preout} :
                     IsErr(verify(WithPreout(s, pre), st))
                /\ \A st2 \in LifeStories(s.criteria) :
                     vrf_input(s.criteria, st2) # vrf_input(s.criteria, st)
                        => IsErr(verify(s, st2))

\* verify has returned an error for a wire form that differs from a valid one
\* in the slot of its context only
C2_Witness ==
    /\ verified # None
    /\ IsErr(verified.result)
    /\ \E sl \in Slots :
        /\ sl # verified.s.context.slot
        /\ IsOk(verify(WithContext(verified.s, [verified.s.context EXCEPT !.slot = sl]),
                       verified.story))

\* C3 as stated: for delay-based criteria the value delay_tranche(context)
\* returns is in [0, num_cores * delay_tranches_per_core), for every
\* num_cores, 0 included.
C3_TrancheInRange ==
    (/\ IsCall("delay_tranche")
     /\ IsDelayCriteria(position.a.criteria)
     /\ IsOk(position.result)) =>
        /\ 0 <= position.result.val
        /\ position.result.val < num_cores(position.context) * 2

\* what delay_tranche does with no core: the modulus is the zeroth tranche's
\* width, 7 for RelayEquivocation (tranche 0) and 0 for RelayVRFDelay (the
\* remainder panics)
NoCoreTranche(criteria, result) ==
    IF criteria.kind = "RelayEquivocation" THEN result = Ok(0) ELSE IsPanic(result)

\* C3 amended: for delay-based criteria and num_cores >= 1, delay_tranche(context)
\* is in [0, num_cores * delay_tranches_per_core); for num_cores = 0, where
\* that range is empty, RelayEquivocation gives 0 and RelayVRFDelay panics.
C3_TrancheInRangeWithCores ==
    (IsCall("delay_tranche") /\ IsDelayCriteria(position.a.criteria)) =>
        IF num_cores(position.context) >= 1
        THEN /\ IsOk(position.result)
             /\ 0 <= position.result.val
             /\ position.result.val < num_cores(position.context) * 2
        ELSE NoCoreTranche(position.a.criteria, position.result)

\* delay_tranche has returned the largest tranche of the largest core count
C3_Witness ==
    /\ IsCall("delay_tranche")
    /\ position.a.criteria.kind = "RelayEquivocation"
    /\ num_cores(position.context) = MaxU32
    /\ position.result = Ok(MaxU32 - 8)

AssignedCores(paraids) == {i \in 1..Len(paraids) : paraids[i] # None}

C5_DelayParaid ==
    (IsCall("paraid") /\ IsDelayCriteria(position.a.criteria)) =>
        IF core_by_paraid(position.context, position.a.criteria.paraid) = None
        THEN position.result = Ok(None)
        ELSE position.result = Ok(Some(position.a.criteria.paraid))

\* paraid has returned none for a verified assignment whose paraid has no core
C5_Witness ==
    /\ IsCall("paraid")
    /\ IsDelayCriteria(position.a.criteria)
    /\ position.a.vrf_signature # Unit
    /\ position.result = Ok(None)

\* C6: RelayEquivocation{paraid}.vrf_input(story) fails iff paraid is no key of
\* story.candidate_equivocations, with BadStory; create fails exactly when
\* vrf_input fails, and with that error.
C6_EquivocationInput ==
    created # None =>
        LET input == vrf_input(created.criteria, created.story)
        IN  /\ created.criteria.kind = "RelayEquivocation" =>
                /\ IsErr(input) <=>
                     created.criteria.paraid \notin DOMAIN created.story.candidate_equivocations
                /\ IsErr(input) => input.kind = "BadStory"
            /\ IsErr(created.result) <=> IsErr(input)
            /\ IsErr(created.result) => created.result = input
            /\ created.result.tag \in {"Ok", "Err"}

\* create has failed with BadStory for a paraid absent from the story
C6_Witness ==
    /\ created # None
    /\ created.criteria.kind = "RelayEquivocation"
    /\ created.criteria.paraid \notin DOMAIN created.story.candidate_equivocations
    /\ created.result = BadStory("Not a candidate equivocation")

StoryLacksParaid ==
    /\ verified # None
    /\ verified.s.criteria.kind = "RelayEquivocation"
    /\ verified.s.criteria.paraid \notin DOMAIN verified.story.candidate_equivocations

\* C8 as stated: verify of a RelayEquivocation whose paraid is absent from
\* the story returns vrf_input's BadStory, whatever the checker, pre-output
\* and proof bytes are.
C8_BadStoryWhateverBytes ==
    StoryLacksParaid => verified.result = BadStory("Not a candidate equivocation")

\* C8 amended: verify of a RelayEquivocation whose paraid is absent from the
\* story returns vrf_input's BadStory, whatever the pre-output and proof
\* bytes are, when the checker bytes decode to a public key; when they do not,
\* it returns BadAssignment (bad publickey).
C8_BadStoryAfterPublicKey ==
    StoryLacksParaid =>
        IF IsOk(PublicKeyFromBytes(verified.s.vrf_signature.checker))
        THEN verified.result = BadStory("Not a candidate equivocation")
        ELSE verified.result = BadAssignment("Bad VRF signature (bad publickey)")

\* verify has returned BadStory for a wire form whose pre-output is no point
\* and whose proof is malformed
C8_Witness ==
    /\ StoryLacksParaid
    /\ IsErr(Decompress(verified.s.vrf_preout))
    /\ IsErr(VRFProofFromBytes(verified.s.vrf_signature.vrf_proof))
    /\ verified.result = BadStory("Not a candidate equivocation")

\* the tranche the claim computes from v, num_cores and w
C9_Formula(result, v, n, w) ==
    LET prod == IF n * 2 > MaxU32 THEN MaxU32 ELSE n * 2
        M == IF prod + w > MaxU32 THEN MaxU32 ELSE prod + w
    IN  /\ M > w
        /\ IsOk(result)
        /\ result.val = (IF (v % M) - w > 0 THEN (v % M) - w ELSE 0)
        /\ (result.val = 0) <=> (v % M <= w)
        /\ (result.val > 0) => (v % M = result.val + w)

C9_Width(criteria) == IF criteria.kind = "RelayVRFDelay" THEN 0 ELSE 7

\* C9 as stated: the value delay_tranche returns is max(0, (v mod M) - w)
\* with the saturating M = num_cores * 2 + w, w + 1 of the M residues giving
\* tranche 0 and one residue every other tranche, for any num_cores.
C9_TrancheFormula ==
    (/\ IsCall("delay_tranche")
     /\ IsDelayCriteria(position.a.criteria)
     /\ IsOk(position.result)) =>
        C9_Formula(position.result, make_bytes(position.a.vrf_inout, "tranche"),
                   num_cores(position.context), C9_Width(position.a.criteria))

\* C9 amended: the same for every num_cores >= 1; for num_cores = 0 the
\* modulus is w, so RelayEquivocation gives tranche 0 for each of its 7
\* residues and RelayVRFDelay panics on the remainder by 0.
C9_TrancheFormulaWithCores ==
    (IsCall("delay_tranche") /\ IsDelayCriteria(position.a.criteria)) =>
        IF num_cores(position.context) >= 1
        THEN C9_Formula(position.result, make_bytes(position.a.vrf_inout, "tranche"),
                        num_cores(position.context), C9_Width(position.a.criteria))
        ELSE NoCoreTranche(position.a.criteria, position.result)

\* num_cores = 5, RelayEquivocation and v = 3 have given modulus 17, tranche 0
C9_Witness ==
    /\ IsCall("delay_tranche")
    /\ position.a.criteria.kind = "RelayEquivocation"
    /\ num_cores(position.context) = 5
    /\ make_bytes(position.a.vrf_inout, "tranche") = 3
    /\ delay_tranche_modulus(position.a.criteria, position.context) = 17
    /\ position.result = Ok(0)

\* C10: a successful verify returns the wire form's context and an assignment
\* with its criteria and signature, built with the key decoded from the
\* signature's checker; to_signed of it is the wire form again; and verify
\* leaves the wire form as it was.
C10_VerifyInverse ==
    /\ [](verified # None /\ IsOk(verified.result) =>
            LET s == verified.s
                ctx == verified.result.val[1]
                a == verified.result.val[2]
            IN  /\ ctx = s.context
                /\ a.criteria = s.criteria
                /\ a.vrf_signature = s.vrf_signature
                /\ checker(a) = checker(s)
                /\ PublicKeyToBytes([pk |-> a.vrf_inout.input.pk]) = checker(s)
                /\ a.vrf_inout.output.point
                     = VrfPoint(a.vrf_inout.input.pk, a.vrf_inout.input)
                /\ to_signed(a, ctx) = s)
    /\ [][verified' # verified => (wire' = wire /\ verified'.s = wire)]_vars

\* verify has succeeded for a wire form whose checker is not the context's authority
C10_Witness ==
    /\ verified # None
    /\ IsOk(verified.result)
    /\ verified.s.context.authority # checker(verified.s)

====
